---- MODULE Spec2Model ----
(***************************************************************************)
(* Model of the job model (models/job.js), the job routes (routes/jobs.js) *)
(* and the partial-update builder (helpers/sql.js) of express-jobly.       *)
(*                                                                         *)
(* Text values that the code inspects character by character (titles,      *)
(* query-string values) are sequences of one-character strings; names the  *)
(* code only compares (keys, columns, company handles) are strings.        *)
(***************************************************************************)
EXTENDS Integers, Sequences, FiniteSets, TLC

VARIABLES jobs, nextId, call, result, sent

vars == <<jobs, nextId, call, result, sent>>

----------------------------------------------------------------------------
(* Bounds *)

\* ids the serial column hands out
MaxId == 2
\* rows the jobs table holds
MaxJobs == 2
\* length of a title substring given as a filter
MaxPatLen == 1
\* keys of a payload handed to the partial-update builder
MaxKeys == 3
\* keys of the body of a PATCH request
MaxBodyKeys == 2

----------------------------------------------------------------------------
(* JavaScript values *)

Undef == [t |-> "undefined"]
Null == [t |-> "null"]
Num(n) == [t |-> "number", n |-> n]
Str(s) == [t |-> "string", s |-> s]
Bool(b) == [t |-> "boolean", b |-> b]

\* ToBoolean, as applied by `&&`, `!` and `if`
Truthy(v) ==
  CASE v.t = "undefined" -> FALSE
    [] v.t = "null" -> FALSE
    [] v.t = "number" -> v.n # 0
    [] v.t = "string" -> v.s # << >>
    [] v.t = "boolean" -> v.b

Digits == <<"0", "1", "2", "3", "4", "5", "6", "7", "8", "9">>

IsDigit(c) == \E i \in 1..10 : Digits[i] = c

DigitVal(c) == (CHOOSE i \in 1..10 : Digits[i] = c) - 1

RECURSIVE DecimalVal(_)
DecimalVal(s) ==
  IF s = << >> THEN 0
  ELSE 10 * DecimalVal(SubSeq(s, 1, Len(s) - 1)) + DigitVal(s[Len(s)])

IsDecimal(s) == s # << >> /\ \A i \in 1..Len(s) : IsDigit(s[i])

\* the global isNaN(x): x is coerced with ToNumber first
isNaN(v) ==
  CASE v.t = "undefined" -> TRUE
    [] v.t = "null" -> FALSE
    [] v.t = "number" -> FALSE
    [] v.t = "boolean" -> FALSE
    [] v.t = "string" -> ~(v.s = << >> \/ IsDecimal(v.s))

----------------------------------------------------------------------------
(* Input domains *)

Alphabet == {"J", "j", "1"}

Titles == {<<"J", "1">>, <<"j">>}

Handles == {<<"c", "1">>, <<"c", "2">>}

Salaries == {Null, Num(0), Num(1)}

\* equity is a NUMERIC column; Num(k) stands for the number k/10
Equities == {Null, Num(0), Num(5)}

RECURSIVE SeqsUpTo(_, _)
SeqsUpTo(S, n) ==
  IF n = 0 THEN {<< >>}
  ELSE LET shorter == SeqsUpTo(S, n - 1)
       IN  shorter \cup {Append(s, c) : s \in shorter, c \in S}

Patterns == SeqsUpTo(Alphabet, MaxPatLen)

\* salary and equity of the jobs a listing is run against
Pay == {<<Null, Null>>, <<Num(0), Num(5)>>, <<Num(1), Num(0)>>, <<Num(2), Num(5)>>}

ListedJobs ==
  {[title |-> Str(t), salary |-> p[1], equity |-> p[2], companyHandle |-> Str(h)] :
     t \in Titles, p \in Pay, h \in Handles}

NewJobs ==
  [title : {Str(t) : t \in Titles}, salary : {Null}, equity : {Num(0)},
   companyHandle : {Str(h) : h \in Handles}]

JobIds ==
  {Num(i) : i \in 1..MaxId} \cup {Str(<<"1">>), Str(<<"n", "o", "p", "e">>)}

----------------------------------------------------------------------------
(* The store: the jobs table, and how it answers a statement *)

Ph(i) == "$" \o ToString(i)

MaxPh == MaxKeys + 4

PhIndex(tok) == CHOOSE i \in 1..MaxPh : Ph(i) = tok

Quote(col) == "\"" \o col \o "\""

Columns ==
  {"id", "title", "salary", "equity", "company_handle", "name", "description",
   "num_employees", "logo_url", "numEmployees", "logoUrl", "companyHandle"}

\* the columns of the jobs table
TableColumns == {"id", "title", "salary", "equity", "company_handle"}

Unquote(tok) == CHOOSE c \in Columns : Quote(c) = tok

Pred(col, op, ph) == [col |-> col, op |-> op, ph |-> ph]

LowerChar(c) == IF c = "J" THEN "j" ELSE c

\* LOWER(text)
Lower(s) == [i \in 1..Len(s) |-> LowerChar(s[i])]

\* text LIKE pattern: % matches any run of characters, _ any one character
RECURSIVE Like(_, _)
Like(s, p) ==
  IF p = << >> THEN s = << >>
  ELSE IF p[1] = "%" THEN Like(s, Tail(p)) \/ (s # << >> /\ Like(Tail(s), p))
  ELSE IF s = << >> THEN FALSE
  ELSE (p[1] = "_" \/ p[1] = s[1]) /\ Like(Tail(s), Tail(p))

\* a parameter bound to an integer or numeric column
PgInt(v) == IF v.t = "number" THEN v.n ELSE DecimalVal(v.s)

\* WHERE: a comparison with a NULL column is not true
Holds(row, pred, params) ==
  LET p == params[PhIndex(pred.ph)]
  IN  CASE pred.col = "title" /\ pred.op = "LOWER LIKE" ->
             Like(Lower(row.title), p.s)
        [] pred.col = "title" /\ pred.op = "=" -> row.title = p.s
        [] pred.col = "company_handle" /\ pred.op = "=" ->
             row.companyHandle = p.s
        [] pred.col = "salary" /\ pred.op = ">=" ->
             row.salary # Null /\ row.salary.n >= PgInt(p)
        [] pred.col = "equity" /\ pred.op = "!=" ->
             row.equity # Null /\ row.equity.n # PgInt(p)
        [] pred.col = "id" /\ pred.op = "=" -> row.id = PgInt(p)

Selected(q) ==
  {row \in jobs : \A i \in 1..Len(q.where) : Holds(row, q.where[i], q.params)}

CharCode(c) ==
  CASE c = "1" -> 49 [] c = "2" -> 50 [] c = "J" -> 74 [] c = "c" -> 99
    [] c = "j" -> 106 [] OTHER -> 0

RECURSIVE TextLess(_, _)
TextLess(a, b) ==
  IF b = << >> THEN FALSE
  ELSE IF a = << >> THEN TRUE
  ELSE IF a[1] = b[1] THEN TextLess(Tail(a), Tail(b))
  ELSE CharCode(a[1]) < CharCode(b[1])

\* row a may come before row b under the ORDER BY clause; DESC puts NULL first
MayPrecede(orderBy, a, b) ==
  CASE orderBy = "salary DESC" ->
         a.salary = Null \/ (b.salary # Null /\ a.salary.n >= b.salary.n)
    [] orderBy = "company_handle" -> ~TextLess(b.companyHandle, a.companyHandle)
    [] OTHER -> TRUE

Perms(S) ==
  {s \in [1..Cardinality(S) -> S] : \A i, j \in 1..Cardinality(S) : i # j => s[i] # s[j]}

\* the orders in which the store may return the rows: ties are in any order
Ordered(rows, orderBy) ==
  {s \in Perms(rows) :
     \A i, j \in 1..Len(s) : i < j => MayPrecede(orderBy, s[i], s[j])}

\* NUMERIC as node-postgres returns it: a decimal string
NumericText(k) ==
  IF k % 10 = 0 THEN <<Digits[(k \div 10) + 1]>>
  ELSE <<Digits[(k \div 10) + 1], ".", Digits[(k % 10) + 1]>>

\* id, title, salary, equity, company_handle AS "companyHandle"
JobObject(row) ==
  [t |-> "object", id |-> Num(row.id), title |-> Str(row.title),
   salary |-> row.salary,
   equity |-> IF row.equity = Null THEN Null ELSE Str(NumericText(row.equity.n)),
   companyHandle |-> Str(row.companyHandle)]

RowObjects(s) == [t |-> "array", rows |-> [i \in 1..Len(s) |-> JobObject(s[i])]]

Select(where, orderBy, params) ==
  [verb |-> "SELECT", where |-> where, orderBy |-> orderBy, params |-> params]

\* UNIQUE (title, company_handle) on the jobs table
UniqueOk(rows) ==
  \A a, b \in rows :
    (a.title = b.title /\ a.companyHandle = b.companyHandle) => a = b

\* id is the key of the jobs table
KeyOk(rows) == \A a, b \in rows : a.id = b.id => a = b

Returned(v) == [kind |-> "return", value |-> v]

Thrown(e) == [kind |-> "throw", error |-> e]

Idle == [op |-> "none"]

Init ==
  /\ jobs = {}
  /\ nextId = 1
  /\ call = Idle
  /\ result = [kind |-> "none"]
  /\ sent = << >>

\* the caller awaits a call before it makes the next one
Resume ==
  /\ call # Idle
  /\ call' = Idle
  /\ result' = [kind |-> "none"]
  /\ sent' = << >>
  /\ UNCHANGED <<jobs, nextId>>

----------------------------------------------------------------------------
(* helpers/sql.js *)

\* a JavaScript object is the sequence of its entries, in insertion order
Entry(k, v) == [key |-> k, val |-> v]

ObjectKeys(obj) == [i \in 1..Len(obj) |-> obj[i].key]

ObjectValues(obj) == [i \in 1..Len(obj) |-> obj[i].val]

RECURSIVE JoinComma(_)
JoinComma(parts) ==
  IF parts = << >> THEN << >>
  ELSE IF Len(parts) = 1 THEN parts[1]
  ELSE parts[1] \o <<", ">> \o JoinComma(Tail(parts))

ColumnFor(key, jsToSql) == IF key \in DOMAIN jsToSql THEN jsToSql[key] ELSE key

\* the builder with placeholders counted from 0
sqlForPartialUpdateFromZero(dataToUpdate, jsToSql) ==
  LET keys == ObjectKeys(dataToUpdate)
      cols == [i \in 1..Len(keys) |->
                 <<Quote(ColumnFor(keys[i], jsToSql)), "=", Ph(i - 1)>>]
  IN  IF Len(keys) = 0 THEN Thrown("BadRequestError")
      ELSE Returned([setCols |-> JoinComma(cols),
                     values |-> ObjectValues(dataToUpdate)])

\* the builder with the alias map left unused
sqlForPartialUpdateNoAlias(dataToUpdate, jsToSql) ==
  LET keys == ObjectKeys(dataToUpdate)
      cols == [i \in 1..Len(keys) |-> <<Quote(keys[i]), "=", Ph(i)>>]
  IN  IF Len(keys) = 0 THEN Thrown("BadRequestError")
      ELSE Returned([setCols |-> JoinComma(cols),
                     values |-> ObjectValues(dataToUpdate)])

\* the text of setCols is kept as its sequence of tokens
sqlForPartialUpdate(dataToUpdate, jsToSql) ==
  LET keys == ObjectKeys(dataToUpdate)
      cols == [i \in 1..Len(keys) |->
                 <<Quote(ColumnFor(keys[i], jsToSql)), "=", Ph(i)>>]
  IN  IF Len(keys) = 0 THEN Thrown("BadRequestError")
      ELSE Returned([setCols |-> JoinComma(cols),
                     values |-> ObjectValues(dataToUpdate)])

----------------------------------------------------------------------------
(* models/job.js *)

Outcome(r, s, j, n) == [result |-> r, sent |-> s, jobs |-> j, nextId |-> n]

Apply(c, o) ==
  /\ call' = c
  /\ result' = o.result
  /\ sent' = o.sent
  /\ jobs' = o.jobs
  /\ nextId' = o.nextId

\* the value a parameter takes in a column of the jobs table
Stored(col, p) ==
  CASE col = "title" -> p.s
    [] col = "company_handle" -> p.s
    [] OTHER -> IF p = Null THEN Null ELSE Num(PgInt(p))

duplicateCheckQuery(title, companyHandle) ==
  Select(<<Pred("title", "=", Ph(1)), Pred("company_handle", "=", Ph(2))>>,
         "", <<title, companyHandle>>)

insertQuery(data) ==
  [verb |-> "INSERT",
   cols |-> <<"title", "salary", "equity", "company_handle">>,
   vals |-> <<Ph(1), Ph(2), Ph(3), Ph(4)>>,
   params |-> <<data.title, data.salary, data.equity, data.companyHandle>>]

Inserted(q) ==
  LET at(col) == q.params[PhIndex(q.vals[CHOOSE i \in 1..Len(q.cols) : q.cols[i] = col])]
  IN  [id |-> nextId, title |-> Stored("title", at("title")),
       salary |-> Stored("salary", at("salary")),
       equity |-> Stored("equity", at("equity")),
       companyHandle |-> Stored("company_handle", at("company_handle"))]

\* create without the duplicate check
createOutcomesUnchecked(data) ==
  LET insert == insertQuery(data)
      row == Inserted(insert)
  IN  IF ~UniqueOk(jobs \cup {row})
      THEN {Outcome(Thrown("DatabaseError"), <<insert>>, jobs, nextId + 1)}
      ELSE {Outcome(Returned(JobObject(row)), <<insert>>, jobs \cup {row}, nextId + 1)}

createOutcomes(data) ==
  LET check == duplicateCheckQuery(data.title, data.companyHandle)
      insert == insertQuery(data)
      row == Inserted(insert)
  IN  IF Selected(check) # {}
      THEN {Outcome(Thrown("BadRequestError"), <<check>>, jobs, nextId)}
      ELSE IF ~UniqueOk(jobs \cup {row})
      THEN {Outcome(Thrown("DatabaseError"), <<check, insert>>, jobs, nextId + 1)}
      ELSE {Outcome(Returned(JobObject(row)), <<check, insert>>,
                    jobs \cup {row}, nextId + 1)}

create(data) ==
  /\ call = Idle
  /\ \/ Selected(duplicateCheckQuery(data.title, data.companyHandle)) # {}
     \/ nextId <= MaxId /\ Cardinality(jobs) < MaxJobs
  /\ \E o \in createOutcomes(data) : Apply([op |-> "create", data |-> data], o)

\* two callers of Job.create at once
Procs == {1, 2}

Pending == [kind |-> "none"]

\* Job.create up to its first await: the duplicate check
createCheckOutcomes(data) ==
  LET check == duplicateCheckQuery(data.title, data.companyHandle)
  IN  IF Selected(check) # {}
      THEN Outcome(Thrown("BadRequestError"), <<check>>, jobs, nextId)
      ELSE Outcome(Pending, <<check>>, jobs, nextId)

\* the insert step with a violation of the store reported as a duplicate
createInsertOutcomesAsDuplicate(data) ==
  LET insert == insertQuery(data)
      row == Inserted(insert)
  IN  IF ~UniqueOk(jobs \cup {row})
      THEN Outcome(Thrown("BadRequestError"), <<insert>>, jobs, nextId + 1)
      ELSE Outcome(Returned(JobObject(row)), <<insert>>, jobs \cup {row}, nextId + 1)

\* Job.create after the check found nothing: the insert
createInsertOutcomes(data) ==
  LET insert == insertQuery(data)
      row == Inserted(insert)
  IN  IF ~UniqueOk(jobs \cup {row})
      THEN Outcome(Thrown("DatabaseError"), <<insert>>, jobs, nextId + 1)
      ELSE Outcome(Returned(JobObject(row)), <<insert>>, jobs \cup {row}, nextId + 1)

Step(p, at, o) ==
  /\ call' = [call EXCEPT !.pc[p] = at]
  /\ result' = [result EXCEPT !.of[p] = o.result]
  /\ sent' = sent \o o.sent
  /\ jobs' = o.jobs
  /\ nextId' = o.nextId

\* both callers call Job.create
creates(first, second) ==
  /\ call = Idle
  /\ nextId <= MaxId
  /\ Cardinality(jobs) < MaxJobs
  /\ call' = [op |-> "creates", data |-> <<first, second>>, pc |-> <<"check", "check">>]
  /\ result' = [kind |-> "creates", of |-> <<Pending, Pending>>]
  /\ sent' = << >>
  /\ UNCHANGED <<jobs, nextId>>

createCheck(p) ==
  /\ call.op = "creates"
  /\ call.pc[p] = "check"
  /\ LET o == createCheckOutcomes(call.data[p])
     IN  Step(p, IF o.result.kind = "throw" THEN "done" ELSE "insert", o)

createInsert(p) ==
  /\ call.op = "creates"
  /\ call.pc[p] = "insert"
  /\ Step(p, "done", createInsertOutcomes(call.data[p]))

\* both calls are over
Settled ==
  /\ call.op = "creates"
  /\ \A p \in Procs : call.pc[p] = "done"
  /\ Resume

findAllQuery == Select(<< >>, "company_handle", << >>)

Answers(q) ==
  {Outcome(Returned(RowObjects(s)), <<q>>, jobs, nextId) :
     s \in Ordered(Selected(q), q.orderBy)}

findAllOutcomes == Answers(findAllQuery)

findAll ==
  /\ call = Idle
  /\ \E o \in findAllOutcomes : Apply([op |-> "findAll"], o)

Like1(title) == Str(<<"%">> \o title.s \o <<"%">>)

\* findAllFiltered with the ORDER BY of findAll in its minSalary branch
findAllFilteredQueryByHandle(criteria) ==
  LET title == criteria.title
      minSalary == criteria.minSalary
      hasEquity == criteria.hasEquity
      t == Truthy(title)
      m == Truthy(minSalary)
      e == Truthy(hasEquity)
      byTitle(i) == Pred("title", "LOWER LIKE", Ph(i))
      bySalary(i) == Pred("salary", ">=", Ph(i))
      byEquity(i) == Pred("equity", "!=", Ph(i))
  IN  IF t /\ m /\ e
      THEN <<Select(<<byTitle(1), bySalary(2), byEquity(3)>>, "salary DESC",
                    <<Like1(title), minSalary, Num(0)>>)>>
      ELSE IF t /\ ~m /\ ~e
      THEN <<Select(<<byTitle(1)>>, "salary DESC", <<Like1(title)>>)>>
      ELSE IF t /\ m /\ ~e
      THEN <<Select(<<byTitle(1), bySalary(2)>>, "salary DESC",
                    <<Like1(title), minSalary>>)>>
      ELSE IF t /\ ~m /\ e
      THEN <<Select(<<byTitle(1), byEquity(2)>>, "salary DESC",
                    <<Like1(title), Num(0)>>)>>
      ELSE IF ~t /\ m /\ e
      THEN <<Select(<<bySalary(1), byEquity(2)>>, "salary DESC",
                    <<minSalary, Num(0)>>)>>
      ELSE IF ~t /\ m /\ ~e
      THEN <<Select(<<bySalary(1)>>, "company_handle", <<minSalary>>)>>
      ELSE IF ~t /\ ~m /\ e
      THEN <<Select(<<byEquity(1)>>, "salary DESC", <<Num(0)>>)>>
      ELSE << >>

\* findAllFiltered with the parameters of its minSalary and hasEquity branch
\* in the other order
findAllFilteredQueryParamsSwapped(criteria) ==
  LET title == criteria.title
      minSalary == criteria.minSalary
      hasEquity == criteria.hasEquity
      t == Truthy(title)
      m == Truthy(minSalary)
      e == Truthy(hasEquity)
      byTitle(i) == Pred("title", "LOWER LIKE", Ph(i))
      bySalary(i) == Pred("salary", ">=", Ph(i))
      byEquity(i) == Pred("equity", "!=", Ph(i))
  IN  IF t /\ m /\ e
      THEN <<Select(<<byTitle(1), bySalary(2), byEquity(3)>>, "salary DESC",
                    <<Like1(title), minSalary, Num(0)>>)>>
      ELSE IF t /\ ~m /\ ~e
      THEN <<Select(<<byTitle(1)>>, "salary DESC", <<Like1(title)>>)>>
      ELSE IF t /\ m /\ ~e
      THEN <<Select(<<byTitle(1), bySalary(2)>>, "salary DESC",
                    <<Like1(title), minSalary>>)>>
      ELSE IF t /\ ~m /\ e
      THEN <<Select(<<byTitle(1), byEquity(2)>>, "salary DESC",
                    <<Like1(title), Num(0)>>)>>
      ELSE IF ~t /\ m /\ e
      THEN <<Select(<<bySalary(1), byEquity(2)>>, "salary DESC",
                    <<Num(0), minSalary>>)>>
      ELSE IF ~t /\ m /\ ~e
      THEN <<Select(<<bySalary(1)>>, "salary DESC", <<minSalary>>)>>
      ELSE IF ~t /\ ~m /\ e
      THEN <<Select(<<byEquity(1)>>, "salary DESC", <<Num(0)>>)>>
      ELSE << >>

\* the statement findAllFiltered sends: none when no branch is taken
findAllFilteredQuery(criteria) ==
  LET title == criteria.title
      minSalary == criteria.minSalary
      hasEquity == criteria.hasEquity
      t == Truthy(title)
      m == Truthy(minSalary)
      e == Truthy(hasEquity)
      byTitle(i) == Pred("title", "LOWER LIKE", Ph(i))
      bySalary(i) == Pred("salary", ">=", Ph(i))
      byEquity(i) == Pred("equity", "!=", Ph(i))
  IN  IF t /\ m /\ e
      THEN <<Select(<<byTitle(1), bySalary(2), byEquity(3)>>, "salary DESC",
                    <<Like1(title), minSalary, Num(0)>>)>>
      ELSE IF t /\ ~m /\ ~e
      THEN <<Select(<<byTitle(1)>>, "salary DESC", <<Like1(title)>>)>>
      ELSE IF t /\ m /\ ~e
      THEN <<Select(<<byTitle(1), bySalary(2)>>, "salary DESC",
                    <<Like1(title), minSalary>>)>>
      ELSE IF t /\ ~m /\ e
      THEN <<Select(<<byTitle(1), byEquity(2)>>, "salary DESC",
                    <<Like1(title), Num(0)>>)>>
      ELSE IF ~t /\ m /\ e
      THEN <<Select(<<bySalary(1), byEquity(2)>>, "salary DESC",
                    <<minSalary, Num(0)>>)>>
      ELSE IF ~t /\ m /\ ~e
      THEN <<Select(<<bySalary(1)>>, "salary DESC", <<minSalary>>)>>
      ELSE IF ~t /\ ~m /\ e
      THEN <<Select(<<byEquity(1)>>, "salary DESC", <<Num(0)>>)>>
      ELSE << >>

findAllFilteredOutcomes(criteria) ==
  LET q == findAllFilteredQuery(criteria)
  IN  IF q = << >> THEN {Outcome(Returned(Undef), << >>, jobs, nextId)}
      ELSE Answers(q[1])

findAllFiltered(criteria) ==
  /\ call = Idle
  /\ \E o \in findAllFilteredOutcomes(criteria) :
       Apply([op |-> "findAllFiltered", criteria |-> criteria], o)

getQuery(id) == Select(<<Pred("id", "=", Ph(1))>>, "", <<id>>)

getOutcomes(id) ==
  LET q == getQuery(id)
  IN  IF isNaN(id) THEN {Outcome(Thrown("NotFoundError"), << >>, jobs, nextId)}
      ELSE IF Selected(q) = {}
      THEN {Outcome(Thrown("NotFoundError"), <<q>>, jobs, nextId)}
      ELSE {Outcome(Returned(JobObject(row)), <<q>>, jobs, nextId) :
              row \in Selected(q)}

get(id) ==
  /\ call = Idle
  /\ \E o \in getOutcomes(id) : Apply([op |-> "get", id |-> id], o)

\* SET: the i-th fragment of the clause is tokens 4i-3 .. 4i-1
Assigned(row, q) ==
  LET n == (Len(q.set) + 1) \div 4
      hits(col) == {i \in 1..n : Unquote(q.set[4 * i - 3]) = col}
      new(col, old) ==
        IF hits(col) = {} THEN old
        ELSE LET i == CHOOSE k \in hits(col) : \A l \in hits(col) : l <= k
             IN  Stored(col, q.params[PhIndex(q.set[4 * i - 1])])
  IN  [id |-> new("id", Num(row.id)).n, title |-> new("title", row.title),
       salary |-> new("salary", row.salary),
       equity |-> new("equity", row.equity),
       companyHandle |-> new("company_handle", row.companyHandle)]

\* the store refuses an UPDATE that names a column the table lacks, or that
\* would leave two jobs with one id or one title in one company
Refused(q, after) ==
  LET n == (Len(q.set) + 1) \div 4
  IN  \/ \E i \in 1..n : Unquote(q.set[4 * i - 3]) \notin TableColumns
      \/ ~KeyOk(after)
      \/ ~UniqueOk(after)

updateQuery(id, built) ==
  LET idVarIdx == Ph(Len(built.values) + 1)
  IN  [verb |-> "UPDATE", set |-> built.setCols,
       where |-> <<Pred("id", "=", idVarIdx)>>,
       params |-> built.values \o <<id>>]

\* update with the row looked up before the SET clause is built
updateOutcomesLookupFirst(id, data) ==
  LET built == sqlForPartialUpdate(data,
                 [title |-> "title", salary |-> "salary", equity |-> "equity"])
      q == updateQuery(id, built.value)
      hit == Selected(q)
      after == (jobs \ hit) \cup {Assigned(row, q) : row \in hit}
  IN  IF isNaN(id) THEN {Outcome(Thrown("NotFoundError"), << >>, jobs, nextId)}
      ELSE IF Selected(getQuery(id)) = {}
      THEN {Outcome(Thrown("NotFoundError"), <<getQuery(id)>>, jobs, nextId)}
      ELSE IF built.kind = "throw" THEN {Outcome(built, << >>, jobs, nextId)}
      ELSE IF Refused(q, after)
      THEN {Outcome(Thrown("DatabaseError"), <<q>>, jobs, nextId)}
      ELSE {Outcome(Returned(JobObject(Assigned(row, q))), <<q>>, after, nextId) :
              row \in hit}

\* update with the WHERE clause left out of the statement
updateOutcomesEveryRow(id, data) ==
  LET built == sqlForPartialUpdate(data,
                 [title |-> "title", salary |-> "salary", equity |-> "equity"])
      q == updateQuery(id, built.value)
      hit == jobs
      after == {Assigned(row, q) : row \in hit}
  IN  IF isNaN(id) THEN {Outcome(Thrown("NotFoundError"), << >>, jobs, nextId)}
      ELSE IF built.kind = "throw" THEN {Outcome(built, << >>, jobs, nextId)}
      ELSE IF Refused(q, after) \/ Cardinality(after) # Cardinality(hit)
      THEN {Outcome(Thrown("DatabaseError"), <<q>>, jobs, nextId)}
      ELSE IF Selected(q) = {}
      THEN {Outcome(Thrown("NotFoundError"), <<q>>, jobs, nextId)}
      ELSE {Outcome(Returned(JobObject(Assigned(row, q))), <<q>>, after, nextId) :
              row \in Selected(q)}

updateOutcomes(id, data) ==
  LET built == sqlForPartialUpdate(data,
                 [title |-> "title", salary |-> "salary", equity |-> "equity"])
      q == updateQuery(id, built.value)
      hit == Selected(q)
      after == (jobs \ hit) \cup {Assigned(row, q) : row \in hit}
  IN  IF isNaN(id) THEN {Outcome(Thrown("NotFoundError"), << >>, jobs, nextId)}
      ELSE IF built.kind = "throw" THEN {Outcome(built, << >>, jobs, nextId)}
      ELSE IF Refused(q, after)
      THEN {Outcome(Thrown("DatabaseError"), <<q>>, jobs, nextId)}
      ELSE IF hit = {}
      THEN {Outcome(Thrown("NotFoundError"), <<q>>, jobs, nextId)}
      ELSE {Outcome(Returned(JobObject(Assigned(row, q))), <<q>>, after, nextId) :
              row \in hit}

update(id, data) ==
  /\ call = Idle
  /\ \E o \in updateOutcomes(id, data) :
       Apply([op |-> "update", id |-> id, data |-> data], o)

removeQuery(id) ==
  [verb |-> "DELETE", where |-> <<Pred("id", "=", Ph(1))>>, params |-> <<id>>]

\* remove without the check that a row was deleted
removeOutcomesSilent(id) ==
  LET q == removeQuery(id)
      hit == Selected(q)
  IN  IF isNaN(id) THEN {Outcome(Thrown("NotFoundError"), << >>, jobs, nextId)}
      ELSE IF hit = {} THEN {Outcome(Returned(Undef), <<q>>, jobs, nextId)}
      ELSE {Outcome(Returned([t |-> "object", id |-> Num(row.id)]), <<q>>,
                    jobs \ hit, nextId) : row \in hit}

\* remove with the WHERE clause left out of the statement
removeOutcomesEveryRow(id) ==
  LET q == removeQuery(id)
      hit == Selected(q)
  IN  IF isNaN(id) THEN {Outcome(Thrown("NotFoundError"), << >>, jobs, nextId)}
      ELSE IF hit = {}
      THEN {Outcome(Thrown("NotFoundError"), <<q>>, jobs, nextId)}
      ELSE {Outcome(Returned([t |-> "object", id |-> Num(row.id)]), <<q>>,
                    {}, nextId) : row \in hit}

removeOutcomes(id) ==
  LET q == removeQuery(id)
      hit == Selected(q)
  IN  IF isNaN(id) THEN {Outcome(Thrown("NotFoundError"), << >>, jobs, nextId)}
      ELSE IF hit = {}
      THEN {Outcome(Thrown("NotFoundError"), <<q>>, jobs, nextId)}
      ELSE {Outcome(Returned([t |-> "object", id |-> Num(row.id)]), <<q>>,
                    jobs \ hit, nextId) : row \in hit}

remove(id) ==
  /\ call = Idle
  /\ \E o \in removeOutcomes(id) : Apply([op |-> "remove", id |-> id], o)

\* the pure builder, called on its own
build(dataToUpdate, jsToSql) ==
  /\ call = Idle
  /\ Apply([op |-> "sqlForPartialUpdate", dataToUpdate |-> dataToUpdate,
            jsToSql |-> jsToSql],
           Outcome(sqlForPartialUpdate(dataToUpdate, jsToSql), << >>, jobs, nextId))

----------------------------------------------------------------------------
(* routes/jobs.js *)

Http(status, body) == [kind |-> "http", status |-> status, body |-> body]

QueryKeys == {"title", "minSalary", "hasEquity", "location"}

\* Object.keys(req.query): a key the query string lacks is undefined
FilterFields(query) == {k \in QueryKeys : query[k] # Undef}

\* GET /jobs
routerGetOutcomes(query) ==
  LET allowedFields == {"title", "minSalary", "hasEquity"}
      filterFields == FilterFields(query)
      json(o) == Outcome(Http(200, [jobs |-> o.result.value]), o.sent, o.jobs, o.nextId)
  IN  IF filterFields = {} THEN {json(o) : o \in findAllOutcomes}
      ELSE IF \E value \in filterFields : value \notin allowedFields
      THEN {Outcome(Http(400, [error |-> "ExpressError"]), << >>, jobs, nextId)}
      ELSE {json(o) : o \in findAllFilteredOutcomes(query)}

routerGet(query) ==
  /\ call = Idle
  /\ \E o \in routerGetOutcomes(query) :
       Apply([op |-> "GET /jobs", query |-> query], o)

\* the status the application's error handler answers a thrown error with
StatusOf(e) ==
  CASE e = "BadRequestError" -> 400
    [] e = "NotFoundError" -> 404
    [] e = "UnauthorizedError" -> 401
    [] OTHER -> 500

\* jsonschema.validate(req.body, jobUpdateSchema): a title is a string and a
\* salary an integer
SchemaValid(body) ==
  \A i \in 1..Len(body) :
    /\ body[i].key = "title" => body[i].val.t = "string"
    /\ body[i].key = "salary" => body[i].val.t = "number"

\* PATCH /jobs/:id with every body let through to the validator
routerPatchOutcomesUnlisted(admin, id, body) ==
  LET json(o) ==
        Outcome(IF o.result.kind = "return"
                THEN Http(200, [job |-> o.result.value])
                ELSE Http(StatusOf(o.result.error), [error |-> o.result.error]),
                o.sent, o.jobs, o.nextId)
  IN  IF ~admin
      THEN {Outcome(Http(401, [error |-> "UnauthorizedError"]), << >>, jobs, nextId)}
      ELSE IF ~SchemaValid(body)
      THEN {Outcome(Http(400, [error |-> "BadRequestError"]), << >>, jobs, nextId)}
      ELSE {json(o) : o \in updateOutcomes(id, body)}

\* PATCH /jobs/:id, behind ensureAdminUser
routerPatchOutcomes(admin, id, body) ==
  LET allowedFields == {"title", "salary", "equity"}
      updateFields == ObjectKeys(body)
      json(o) ==
        Outcome(IF o.result.kind = "return"
                THEN Http(200, [job |-> o.result.value])
                ELSE Http(StatusOf(o.result.error), [error |-> o.result.error]),
                o.sent, o.jobs, o.nextId)
  IN  IF ~admin
      THEN {Outcome(Http(401, [error |-> "UnauthorizedError"]), << >>, jobs, nextId)}
      ELSE IF \E i \in 1..Len(updateFields) : updateFields[i] \notin allowedFields
      THEN {Outcome(Http(400, [error |-> "ExpressError"]), << >>, jobs, nextId)}
      ELSE IF ~SchemaValid(body)
      THEN {Outcome(Http(400, [error |-> "BadRequestError"]), << >>, jobs, nextId)}
      ELSE {json(o) : o \in updateOutcomes(id, body)}

routerPatch(admin, id, body) ==
  /\ call = Idle
  /\ \E o \in routerPatchOutcomes(admin, id, body) :
       Apply([op |-> "PATCH /jobs/:id", admin |-> admin, id |-> id, body |-> body], o)

----------------------------------------------------------------------------
(* Inputs of the calls *)

\* objects with at most n of the given keys, each key with one of its values
RECURSIVE Objects(_, _, _)
Objects(keys, valuesOf, n) ==
  IF n = 0 THEN {<< >>}
  ELSE LET shorter == Objects(keys, valuesOf, n - 1)
       IN  shorter \cup
           {Append(obj, Entry(k, v)) :
              obj \in shorter,
              k \in keys, v \in UNION {valuesOf[key] : key \in keys}}

WellFormed(obj, valuesOf) ==
  /\ \A i, j \in 1..Len(obj) : i # j => obj[i].key # obj[j].key
  /\ \A i \in 1..Len(obj) : obj[i].val \in valuesOf[obj[i].key]

UpdateValues ==
  [title |-> {Str(t) : t \in Titles}, salary |-> {Num(1)}, equity |-> {Null}]

UpdateData ==
  {obj \in Objects({"title", "salary", "equity"}, UpdateValues, MaxKeys) :
     WellFormed(obj, UpdateValues)}

BuilderValues ==
  [name |-> {Str(<<"J">>), Null}, description |-> {Str(<<"j">>)},
   numEmployees |-> {Num(1), Null}, logoUrl |-> {Null}]

BuilderData ==
  {obj \in Objects(DOMAIN BuilderValues, BuilderValues, MaxKeys) :
     WellFormed(obj, BuilderValues)}

ShortData == {obj \in BuilderData : Len(obj) <= 1}

AllAliases ==
  [numEmployees |-> "num_employees", logoUrl |-> "logo_url", name |-> "name"]

Aliases == {[k \in K |-> AllAliases[k]] : K \in SUBSET DOMAIN AllAliases}

Criteria ==
  [title : {Undef} \cup {Str(p) : p \in Patterns},
   minSalary : {Undef, Num(0), Num(1)},
   hasEquity : {Undef, Bool(TRUE), Bool(FALSE)}]

TextFalse == <<"f", "a", "l", "s", "e">>

TextTrue == <<"t", "r", "u", "e">>

\* a query string holds text only
QueryStrings ==
  [title : {Undef} \cup {Str(p) : p \in Patterns},
   minSalary : {Undef, Str(<< >>), Str(<<"1">>)},
   hasEquity : {Undef, Str(TextFalse), Str(TextTrue)},
   location : {Undef}]
  \cup
  [title : {Undef, Str(<<"J">>)}, minSalary : {Undef}, hasEquity : {Undef},
   location : {Str(<<"J">>)}]

\* the jobs of one company
CompanyJobs == {data \in NewJobs : data.companyHandle = Str(<<"c", "2">>)}

\* req.params.id is text
ParamIds ==
  {Str(<<Digits[i + 1]>>) : i \in 1..MaxId} \cup {Str(<<"n", "o", "p", "e">>)}

BodyValues ==
  [title |-> {Str(<<"j">>)}, salary |-> {Num(1), Str(<<"n", "o", "p", "e">>)},
   equity |-> {Null}, id |-> {Num(2)}, companyHandle |-> {Str(<<"c", "2">>)}]

Bodies ==
  {obj \in Objects(DOMAIN BodyValues, BodyValues, MaxBodyKeys) :
     WellFormed(obj, BodyValues)}

----------------------------------------------------------------------------
(* Specifications *)

\* the job model and its helper called directly
Next ==
  \/ \E dataToUpdate \in ShortData, jsToSql \in Aliases : build(dataToUpdate, jsToSql)
  \/ \E data \in NewJobs : create(data)
  \/ \E id \in JobIds : get(id)
  \/ \E id \in JobIds, data \in UpdateData : update(id, data)
  \/ \E id \in JobIds : remove(id)
  \/ findAll
  \/ Resume

Spec == Init /\ [][Next]_vars

\* the listings, run against the jobs created
NextListing ==
  \/ \E data \in ListedJobs : create(data)
  \/ findAll
  \/ \E criteria \in Criteria : findAllFiltered(criteria)
  \/ \E query \in QueryStrings : routerGet(query)
  \/ Resume

SpecListing == Init /\ [][NextListing]_vars

\* the partial-update builder on its own
NextBuilder ==
  \/ \E dataToUpdate \in BuilderData, jsToSql \in Aliases : build(dataToUpdate, jsToSql)
  \/ Resume

SpecBuilder == Init /\ [][NextBuilder]_vars

\* the route that updates a job, on the jobs created
NextRoutes ==
  \/ \E data \in CompanyJobs : create(data)
  \/ \E admin \in BOOLEAN, id \in ParamIds, body \in Bodies : routerPatch(admin, id, body)
  \/ Resume

SpecRoutes == Init /\ [][NextRoutes]_vars

\* two calls of Job.create, their statements interleaved
NextRace ==
  \/ \E first, second \in NewJobs : creates(first, second)
  \/ \E p \in Procs : createCheck(p)
  \/ \E p \in Procs : createInsert(p)
  \/ Settled

SpecRace == Init /\ [][NextRace]_vars

\* every call of the job model, for the statements it sends
NextStatements ==
  \/ \E data \in NewJobs : create(data)
  \/ \E id \in JobIds : get(id)
  \/ \E id \in JobIds, data \in UpdateData : update(id, data)
  \/ \E id \in JobIds : remove(id)
  \/ findAll
  \/ \E criteria \in Criteria : findAllFiltered(criteria)
  \/ Resume

SpecStatements == Init /\ [][NextStatements]_vars

----------------------------------------------------------------------------
(* The partial-update builder *)

IsPlaceholder(tok) == \E i \in 0..(MaxPh + 1) : tok = Ph(i)

Placeholders(tokens) == SelectSeq(tokens, IsPlaceholder)

RECURSIVE Text(_)
Text(tokens) == IF tokens = << >> THEN "" ELSE tokens[1] \o Text(Tail(tokens))

Built == call.op = "sqlForPartialUpdate" /\ call.dataToUpdate # << >>

\* C1: for a non-empty payload the builder returns as many values as the
\* payload has keys, and the SET clause holds exactly the placeholders
\* $1..$N, each once, in the order of the keys.
C1_PlaceholdersCountKeys ==
  Built =>
    /\ result.kind = "return"
    /\ Len(result.value.values) = Len(call.dataToUpdate)
    /\ Placeholders(result.value.setCols) =
         [i \in 1..Len(call.dataToUpdate) |-> Ph(i)]

C1_Witness ==
  /\ Built
  /\ Len(call.dataToUpdate) = 3
  /\ DOMAIN call.jsToSql # {}
  /\ result.kind = "return"
  /\ Placeholders(result.value.setCols) = <<"$1", "$2", "$3">>

\* C2: the i-th fragment of the SET clause is "<column>"=$i, where the column
\* is the alias of the i-th key when the alias map has that key and the key
\* itself otherwise; the i-th value is the i-th value of the payload,
\* unchanged; the clause holds nothing else but the ", " between fragments.
C2_FragmentsFollowKeys ==
  Built =>
    LET P == call.dataToUpdate
        A == call.jsToSql
        setCols == result.value.setCols
        column(k) == IF k \in DOMAIN A THEN A[k] ELSE k
    IN  /\ result.kind = "return"
        /\ Len(setCols) = 4 * Len(P) - 1
        /\ Len(result.value.values) = Len(P)
        /\ \A i \in 1..Len(P) :
             /\ setCols[4 * i - 3] = "\"" \o column(P[i].key) \o "\""
             /\ setCols[4 * i - 2] = "="
             /\ setCols[4 * i - 1] = "$" \o ToString(i)
             /\ i < Len(P) => setCols[4 * i] = ", "
             /\ result.value.values[i] = P[i].val

\* the call of helpers/sql.test.js, up to the values
C2_Witness ==
  /\ Built
  /\ ObjectKeys(call.dataToUpdate) = <<"name", "description", "numEmployees">>
  /\ call.dataToUpdate[1].val = Null
  /\ call.jsToSql = [numEmployees |-> "num_employees", logoUrl |-> "logo_url"]
  /\ result.kind = "return"
  /\ Text(result.value.setCols) = "\"name\"=$1, \"description\"=$2, \"num_employees\"=$3"
  /\ result.value.values[1] = Null

\* C3: the builder fails with BadRequestError on an empty payload whatever
\* the alias map is, and Job.update(id, {}) with a numeric id throws
\* BadRequestError, sends no statement and leaves the jobs as they were.
C3_EmptyPayloadRejected ==
  [][(call = Idle /\ call' # Idle) =>
       /\ (call'.op = "sqlForPartialUpdate" /\ call'.dataToUpdate = << >>) =>
            result' = Thrown("BadRequestError")
       /\ (call'.op = "update" /\ ~isNaN(call'.id) /\ call'.data = << >>) =>
            /\ result' = Thrown("BadRequestError")
            /\ sent' = << >>
            /\ jobs' = jobs]_vars

C3_Witness ==
  /\ call.op = "update"
  /\ call.data = << >>
  /\ call.id = Num(2)
  /\ \E row \in jobs : row.id = 2
  /\ result = Thrown("BadRequestError")
  /\ sent = << >>

----------------------------------------------------------------------------
(* The listings *)

Listing == call.op = "findAllFiltered"

Fetching == call.op = "GET /jobs"

IsArray(v) == v.t = "array"

\* the stored job a returned object stands for
RowOf(obj) == CHOOSE row \in jobs : row.id = obj.id.n

ReturnedIds(v) == {v.rows[i].id.n : i \in 1..Len(v.rows)}

\* the predicates a WHERE clause holds, as <<column, operator>>
Shape(where) == [i \in 1..Len(where) |-> <<where[i].col, where[i].op>>]

\* the conjunction the criteria ask for, in the order title, salary, equity
Wanted(criteria) ==
  (IF criteria.title # Undef THEN <<(<<"title", "LOWER LIKE">>)>> ELSE << >>)
  \o (IF criteria.minSalary # Undef THEN <<(<<"salary", ">=">>)>> ELSE << >>)
  \o (IF Truthy(criteria.hasEquity) THEN <<(<<"equity", "!=">>)>> ELSE << >>)

\* C4: with at least one criterion supplied, findAllFiltered sends one
\* query whose WHERE clause is the conjunction of the predicates of exactly
\* the supplied criteria, whatever their values (0 and "" included).
C4_NoPredicateDropped ==
  (Listing /\ Wanted(call.criteria) # << >>) =>
    /\ Len(sent) = 1
    /\ Shape(sent[1].where) = Wanted(call.criteria)

Contains(text, part) ==
  \E i \in 0..(Len(text) - Len(part)) : SubSeq(text, i + 1, i + Len(part)) = part

\* C5: findAllFiltered({title: s}) returns exactly the jobs whose title,
\* in lower case, contains s in lower case.
C5_TitleMatchIgnoresCase ==
  (/\ Listing
   /\ call.criteria.title # Undef
   /\ call.criteria.title.s # << >>
   /\ call.criteria.minSalary = Undef
   /\ call.criteria.hasEquity = Undef) =>
    /\ result.kind = "return"
    /\ IsArray(result.value)
    /\ ReturnedIds(result.value) =
         {row.id : row \in {r \in jobs :
                              Contains(Lower(r.title), Lower(call.criteria.title.s))}}

\* what a boolean-like flag given as text stands for
FlagSet(v) == IF v.t = "string" THEN v.s = TextTrue ELSE Truthy(v)

HasEquityPredicate(q) == \E i \in 1..Len(q.where) : q.where[i].col = "equity"

\* C6: a truthy hasEquity returns only jobs with equity above zero; a falsy
\* or absent one applies no equity constraint, also when GET /jobs gets the
\* flag as text in the query string (hasEquity=false).
C6_HasEquityIsBooleanLike ==
  /\ (Listing /\ result.kind = "return" /\ IsArray(result.value)) =>
       IF Truthy(call.criteria.hasEquity)
       THEN \A i \in 1..Len(result.value.rows) :
              LET row == RowOf(result.value.rows[i])
              IN  row.equity # Null /\ row.equity.n > 0
       ELSE \A i \in 1..Len(sent) : ~HasEquityPredicate(sent[i])
  /\ (Fetching /\ result.status = 200 /\ IsArray(result.body.jobs)) =>
       IF FlagSet(call.query.hasEquity)
       THEN \A i \in 1..Len(result.body.jobs.rows) :
              LET row == RowOf(result.body.jobs.rows[i])
              IN  row.equity # Null /\ row.equity.n > 0
       ELSE \A i \in 1..Len(sent) : ~HasEquityPredicate(sent[i])

\* salary descending as the store sorts it: NULL salaries come first
SalaryDescending(rows) ==
  \A i, j \in 1..Len(rows) :
    i < j => \/ rows[i].salary = Null
             \/ rows[j].salary # Null /\ rows[i].salary.n >= rows[j].salary.n

HandleAscending(rows) ==
  \A i, j \in 1..Len(rows) :
    i < j => ~TextLess(rows[j].companyHandle.s, rows[i].companyHandle.s)

\* C7: the rows of every filtered query are sorted by salary descending, the
\* rows of findAll are all jobs sorted by company handle ascending; GET /jobs
\* with an empty query string lists as findAll does, and with a filter in
\* salary-descending order.
C7_ListingOrder ==
  /\ (Listing /\ IsArray(result.value)) => SalaryDescending(result.value.rows)
  /\ call.op = "findAll" =>
       /\ HandleAscending(result.value.rows)
       /\ ReturnedIds(result.value) = {row.id : row \in jobs}
  /\ (Fetching /\ FilterFields(call.query) = {}) =>
       /\ result.status = 200
       /\ HandleAscending(result.body.jobs.rows)
       /\ ReturnedIds(result.body.jobs) = {row.id : row \in jobs}
  /\ (Fetching /\ FilterFields(call.query) # {} /\ result.status = 200
        /\ IsArray(result.body.jobs)) =>
       SalaryDescending(result.body.jobs.rows)

\* a filtered listing of two jobs whose order the salary decides, and which
\* the company handle would order the other way
C7_Witness ==
  /\ Listing
  /\ call.criteria.minSalary = Num(1)
  /\ IsArray(result.value)
  /\ Len(result.value.rows) = 2
  /\ result.value.rows[1].salary = Num(2)
  /\ result.value.rows[2].salary = Num(1)
  /\ TextLess(result.value.rows[2].companyHandle.s, result.value.rows[1].companyHandle.s)

\* C8: every GET /jobs whose title, minSalary and hasEquity are all absent
\* or empty lists with findAll, and every successful GET /jobs answers with
\* a list of jobs.
C8_ListAlwaysAnswered ==
  Fetching =>
    /\ (\A k \in {"title", "minSalary", "hasEquity", "location"} :
          ~Truthy(call.query[k])) => sent = <<findAllQuery>>
    /\ result.status = 200 => IsArray(result.body.jobs)

----------------------------------------------------------------------------
(* Identifiers and duplicates *)

ById == call'.op \in {"get", "update", "remove"}

Stranger(id) == ~isNaN(id) /\ ~\E row \in jobs : row.id = PgInt(id)

SamePair(row, data) ==
  row.title = data.title.s /\ row.companyHandle = data.companyHandle.s

----------------------------------------------------------------------------
(* Updates and removals *)

Updating == call'.op = "update" /\ ~isNaN(call'.id) /\ call'.data # << >>

\* the stored job an identifier names
Named(id) == CHOOSE row \in jobs : row.id = PgInt(id)

Exists(id) == ~isNaN(id) /\ \E row \in jobs : row.id = PgInt(id)

HasKey(data, k) == \E i \in 1..Len(data) : data[i].key = k

Given(data, k) == data[CHOOSE i \in 1..Len(data) : data[i].key = k].val

\* the job as the data asks for it: a title is text, a salary or an equity
\* is a number or null
Patched(row, data) ==
  [id |-> row.id,
   title |-> IF HasKey(data, "title") THEN Given(data, "title").s ELSE row.title,
   salary |-> IF HasKey(data, "salary") THEN Given(data, "salary") ELSE row.salary,
   equity |-> IF HasKey(data, "equity") THEN Given(data, "equity") ELSE row.equity,
   companyHandle |-> row.companyHandle]

Taken(row, others) ==
  \E o \in others : o.title = row.title /\ o.companyHandle = row.companyHandle

Patching == call'.op = "PATCH /jobs/:id" /\ call'.admin

Unlisted(body) ==
  \E i \in 1..Len(body) : body[i].key \notin {"title", "salary", "equity"}

\* C12: PATCH /jobs/:id by an admin with a body that holds a key other than
\* title, salary and equity (id among them) is answered with status 400 by
\* the route itself, before Job.update is called: no statement is sent and
\* no job, and no job's id, changes.
C12_UnlistedKeyRejected ==
  [][(call = Idle /\ Patching /\ Unlisted(call'.body)) =>
       /\ result' = Http(400, [error |-> "ExpressError"])
       /\ sent' = << >>
       /\ jobs' = jobs
       /\ nextId' = nextId]_vars

\* the request of the test: the id of a stored job, { id: ... } as the body
C12_Witness ==
  /\ call.op = "PATCH /jobs/:id"
  /\ call.admin
  /\ ObjectKeys(call.body) = <<"id">>
  /\ Exists(call.id)
  /\ call.body[1].val.n # PgInt(call.id)
  /\ result.status = 400
  /\ sent = << >>

\* an identifier the store handed out to a job that is stored no more
Gone(id) == ~isNaN(id) /\ PgInt(id) < nextId /\ ~Exists(id)

Removal ==
  (call'.op = "remove" /\ Exists(call'.id)) =>
    /\ result' = Returned([t |-> "object", id |-> Num(PgInt(call'.id))])
    /\ jobs' = jobs \ {Named(call'.id)}

NeverHandedOutAgain == \A row \in jobs : row.id < nextId

----------------------------------------------------------------------------
(* Creates at once *)

Verbs(statements) == [i \in 1..Len(statements) |-> statements[i].verb]

IsInsert(statement) == statement.verb = "INSERT"

Inserts(statements) == SelectSeq(statements, IsInsert)

\* both calls ask for one title in one company, and both checks were
\* answered, with no job found, before either insert was sent
BothPassed ==
  /\ call.op = "creates"
  /\ call.data[1].title = call.data[2].title
  /\ call.data[1].companyHandle = call.data[2].companyHandle
  /\ Len(sent) >= 2
  /\ sent[1].verb = "SELECT"
  /\ sent[2].verb = "SELECT"
  /\ Cardinality({p \in Procs : call.pc[p] = "insert"}) + Len(Inserts(sent)) = 2

\* C14: when two calls of Job.create with one title and company handle both
\* pass the duplicate check before either inserts, at most one row with
\* that title and company handle is stored, and once both calls are over one
\* has returned its job and the other has failed with the fault of the
\* store, not with BadRequestError.
C14_RaceLosesAtStore ==
  BothPassed =>
    /\ Cardinality({row \in jobs : SamePair(row, call.data[1])}) <= 1
    /\ \A p \in Procs : result.of[p] # Thrown("BadRequestError")
    /\ (\A p \in Procs : call.pc[p] = "done") =>
         /\ Cardinality({row \in jobs : SamePair(row, call.data[1])}) = 1
         /\ \E p \in Procs :
              /\ result.of[p].kind = "return"
              /\ result.of[3 - p] = Thrown("DatabaseError")

\* the first caller checked first and lost
C14_Witness ==
  /\ BothPassed
  /\ Verbs(sent) = <<"SELECT", "SELECT", "INSERT", "INSERT">>
  /\ sent[1].params = sent[2].params
  /\ result.of[1] = Thrown("DatabaseError")
  /\ result.of[2].kind = "return"
  /\ result.of[2].value.id = Num(nextId - 2)

----------------------------------------------------------------------------
(* Placeholders and parameters *)

WherePlaceholders(q) == [i \in 1..Len(q.where) |-> q.where[i].ph]

\* the placeholders of a statement, in the order of its text
Marks(q) ==
  CASE q.verb = "INSERT" -> q.vals
    [] q.verb = "UPDATE" -> Placeholders(q.set) \o WherePlaceholders(q)
    [] OTHER -> WherePlaceholders(q)

Numbered(q) == Marks(q) = [i \in 1..Len(q.params) |-> Ph(i)]

\* the parameter the i-th predicate of the WHERE clause is compared with
Bound(q, i) == q.params[PhIndex(q.where[i].ph)]

Rank(col) == CASE col = "title" -> 1 [] col = "salary" -> 2 [] col = "equity" -> 3

FilterBound(q, criteria) ==
  /\ \A i, j \in 1..Len(q.where) : i < j => Rank(q.where[i].col) < Rank(q.where[j].col)
  /\ \A i \in 1..Len(q.where) :
       Bound(q, i) =
         CASE q.where[i].col = "title" -> Str(<<"%">> \o criteria.title.s \o <<"%">>)
           [] q.where[i].col = "salary" -> criteria.minSalary
           [] q.where[i].col = "equity" -> Num(0)

UpdateBound(q, id, data) ==
  LET N == Len(data)
  IN  /\ Len(q.params) = N + 1
      /\ WherePlaceholders(q) = <<Ph(N + 1)>>
      /\ q.where[1].col = "id"
      /\ q.params[N + 1] = id
      /\ Placeholders(q.set) = [i \in 1..N |-> Ph(i)]
      /\ \A i \in 1..N :
           /\ q.set[4 * i - 3] = Quote(data[i].key)
           /\ q.params[i] = data[i].val
      /\ \A i \in 1..Len(q.set) : q.set[i] # Ph(N + 1)

Field(data, col) ==
  CASE col = "title" -> data.title
    [] col = "salary" -> data.salary
    [] col = "equity" -> data.equity
    [] col = "company_handle" -> data.companyHandle

CreateBound(q, data) ==
  IF q.verb = "INSERT"
  THEN /\ Len(q.cols) = Len(q.vals)
       /\ \A i \in 1..Len(q.cols) : q.params[PhIndex(q.vals[i])] = Field(data, q.cols[i])
  ELSE \A i \in 1..Len(q.where) : Bound(q, i) = Field(data, q.where[i].col)

\* C15: every statement the job model sends holds the placeholders $1..$K,
\* each once and in this order, for its K parameters, and each placeholder
\* is bound to the value meant for it: in a filtered query the title
\* pattern, then minSalary, then the literal 0, for the predicates the query
\* has; in Job.update the fields of data under $1..$N and the id under
\* $(N+1), which is no placeholder of the SET clause; in the other
\* statements the id, or the fields of the new job.
C15_PlaceholdersMatchParameters ==
  \A k \in 1..Len(sent) :
    LET q == sent[k]
    IN  /\ Numbered(q)
        /\ call.op = "findAllFiltered" => FilterBound(q, call.criteria)
        /\ call.op = "update" => UpdateBound(q, call.id, call.data)
        /\ call.op = "create" => CreateBound(q, call.data)
        /\ call.op \in {"get", "remove"} =>
             q.where[1].col = "id" /\ Bound(q, 1) = call.id

\* an update of three fields of a stored job: the id is under $4
C15_Witness ==
  /\ call.op = "update"
  /\ Len(call.data) = 3
  /\ Exists(call.id)
  /\ result.kind = "return"
  /\ Len(sent) = 1
  /\ Len(sent[1].params) = 4
  /\ sent[1].where[1].ph = "$4"
  /\ sent[1].params[4] = call.id

====
